---- MODULE Spec2Model ----
(***************************************************************************)
(* The ORC schema type tree of orc-rs (src/orc-rs/src/data_type.rs):       *)
(* TypeKind, ThinType, DataType, the create_*_type builders and the        *)
(* navigation methods, driven by a caller that builds trees bottom-up.     *)
(***************************************************************************)
EXTENDS Naturals, Sequences, FiniteSets

VARIABLES held, schema, flat, res

vars == <<held, schema, flat, res>>

(* ------------------------------ bounds -------------------------------- *)

\* Largest number of DataType nodes the caller holds at once.
MaxNodes == 4

\* Largest precision, scale and maximum length passed to a builder.
MaxParam == 1

(* ------------------------------ TypeKind ------------------------------ *)

TypeKind_Boolean == 0
TypeKind_Byte == 1
TypeKind_Short == 2
TypeKind_Int == 3
TypeKind_Long == 4
TypeKind_Float == 5
TypeKind_Double == 6
TypeKind_String == 7
TypeKind_Binary == 8
TypeKind_Timestamp == 9
TypeKind_List == 10
TypeKind_Map == 11
TypeKind_Struct == 12
TypeKind_Union == 13
TypeKind_Decimal == 14
TypeKind_Date == 15
TypeKind_Varchar == 16
TypeKind_Char == 17
TypeKind_TimestampInstant == 18

TypeKind ==
  { TypeKind_Boolean, TypeKind_Byte, TypeKind_Short, TypeKind_Int,
    TypeKind_Long, TypeKind_Float, TypeKind_Double, TypeKind_String,
    TypeKind_Binary, TypeKind_Timestamp, TypeKind_List, TypeKind_Map,
    TypeKind_Struct, TypeKind_Union, TypeKind_Decimal, TypeKind_Date,
    TypeKind_Varchar, TypeKind_Char, TypeKind_TimestampInstant }

\* A variant of is_primitive: Decimal is left out of the matches! list.
is_primitive_NoDecimal(kind) ==
  ~(kind \in { TypeKind_List, TypeKind_Map, TypeKind_Struct, TypeKind_Union,
               TypeKind_Varchar, TypeKind_Char })

is_primitive(kind) ==
  ~(kind \in { TypeKind_List, TypeKind_Map, TypeKind_Struct, TypeKind_Union,
               TypeKind_Decimal, TypeKind_Varchar, TypeKind_Char })

is_char(kind) == kind \in { TypeKind_Char, TypeKind_Varchar }

(* ------------------------- Option and OrcResult ----------------------- *)

None == << >>

Some(x) == << x >>

Ok(v) == [status |-> "Ok", val |-> v]

DataTypeError(msg) == [status |-> "Err", err |-> "DataTypeError", msg |-> msg]

ParseError(msg) == [status |-> "Err", err |-> "ParseError", msg |-> msg]

\* An out-of-bounds Vec index aborts the call.
Panic == [status |-> "Panic"]

IsOk(r) == r.status = "Ok"

IsDataTypeError(r) == r.status = "Err" /\ r.err = "DataTypeError"

(* ------------------------------ ThinType ------------------------------ *)

ThinType_Unit(tag) == [tag |-> tag]

ThinType_List(s) == [tag |-> "List", elem |-> s]

ThinType_Map(k, v) == [tag |-> "Map", key |-> k, value |-> v]

ThinType_Struct(f) == [tag |-> "Struct", fields |-> f]

ThinType_Union(s) == [tag |-> "Union", subtypes |-> s]

ThinType_Decimal(precision, scale) ==
  [tag |-> "Decimal", precision |-> precision, scale |-> scale]

ThinType_Varchar(max_length) == [tag |-> "Varchar", max_length |-> max_length]

ThinType_Char(max_length) == [tag |-> "Char", max_length |-> max_length]

Field(name, datatype) == [name |-> name, datatype |-> datatype]

TypeKind_from(value) ==
  CASE value.tag = "Boolean" -> TypeKind_Boolean
    [] value.tag = "Byte" -> TypeKind_Byte
    [] value.tag = "Short" -> TypeKind_Short
    [] value.tag = "Int" -> TypeKind_Int
    [] value.tag = "Long" -> TypeKind_Long
    [] value.tag = "Float" -> TypeKind_Float
    [] value.tag = "Double" -> TypeKind_Double
    [] value.tag = "String" -> TypeKind_String
    [] value.tag = "Binary" -> TypeKind_Binary
    [] value.tag = "Timestamp" -> TypeKind_Timestamp
    [] value.tag = "List" -> TypeKind_List
    [] value.tag = "Map" -> TypeKind_Map
    [] value.tag = "Struct" -> TypeKind_Struct
    [] value.tag = "Union" -> TypeKind_Union
    [] value.tag = "Decimal" -> TypeKind_Decimal
    [] value.tag = "Date" -> TypeKind_Date
    [] value.tag = "Varchar" -> TypeKind_Varchar
    [] value.tag = "Char" -> TypeKind_Char
    [] value.tag = "TimestampInstant" -> TypeKind_TimestampInstant

\* A variant of ThinType_try_from: the Date arm is missing.
ThinType_try_from_NoDate(value) ==
  CASE value = TypeKind_Boolean -> Ok(ThinType_Unit("Boolean"))
    [] value = TypeKind_Byte -> Ok(ThinType_Unit("Byte"))
    [] value = TypeKind_Short -> Ok(ThinType_Unit("Short"))
    [] value = TypeKind_Int -> Ok(ThinType_Unit("Int"))
    [] value = TypeKind_Long -> Ok(ThinType_Unit("Long"))
    [] value = TypeKind_Float -> Ok(ThinType_Unit("Float"))
    [] value = TypeKind_Double -> Ok(ThinType_Unit("Double"))
    [] value = TypeKind_String -> Ok(ThinType_Unit("String"))
    [] value = TypeKind_Binary -> Ok(ThinType_Unit("Binary"))
    [] value = TypeKind_Timestamp -> Ok(ThinType_Unit("Timestamp"))
    [] value = TypeKind_TimestampInstant -> Ok(ThinType_Unit("TimestampInstant"))
    [] OTHER -> DataTypeError("Can not convert a non-primitive TypeKind to a ThinType")

ThinType_try_from(value) ==
  CASE value = TypeKind_Boolean -> Ok(ThinType_Unit("Boolean"))
    [] value = TypeKind_Byte -> Ok(ThinType_Unit("Byte"))
    [] value = TypeKind_Short -> Ok(ThinType_Unit("Short"))
    [] value = TypeKind_Int -> Ok(ThinType_Unit("Int"))
    [] value = TypeKind_Long -> Ok(ThinType_Unit("Long"))
    [] value = TypeKind_Float -> Ok(ThinType_Unit("Float"))
    [] value = TypeKind_Double -> Ok(ThinType_Unit("Double"))
    [] value = TypeKind_String -> Ok(ThinType_Unit("String"))
    [] value = TypeKind_Binary -> Ok(ThinType_Unit("Binary"))
    [] value = TypeKind_Timestamp -> Ok(ThinType_Unit("Timestamp"))
    [] value = TypeKind_Date -> Ok(ThinType_Unit("Date"))
    [] value = TypeKind_TimestampInstant -> Ok(ThinType_Unit("TimestampInstant"))
    [] OTHER -> DataTypeError("Can not convert a non-primitive TypeKind to a ThinType")

(* ------------------------------ DataType ------------------------------ *)

\* A variant of DataType_new: the column ids default to 0.
DataType_new_ZeroIds(thin_type) ==
  [ parent |-> None,
    column_id |-> Some(0),
    maximum_column_id |-> Some(0),
    thin_type |-> thin_type,
    attributes |-> << >>,
    subtype_count |-> 0 ]

DataType_new(thin_type) ==
  [ parent |-> None,
    column_id |-> None,
    maximum_column_id |-> None,
    thin_type |-> thin_type,
    attributes |-> << >>,
    subtype_count |-> 0 ]

\* A variant of get_subtype: a Map answers index 1 with its key.
get_subtype_MapKeyTwice(self, child_id) ==
  LET t == self.thin_type IN
  CASE t.tag = "List" ->
         IF child_id = 0 THEN Ok(t.elem)
         ELSE DataTypeError("Lists have only one subtype.")
    [] t.tag = "Map" ->
         IF child_id = 0 THEN Ok(t.key)
         ELSE IF child_id = 1 THEN Ok(t.key)
         ELSE DataTypeError("Maps have only two subtypes.")
    [] t.tag = "Struct" ->
         IF child_id < self.subtype_count
         THEN IF child_id < Len(t.fields) THEN Ok(t.fields[child_id + 1].datatype)
              ELSE Panic
         ELSE DataTypeError("Index out of bound.")
    [] t.tag = "Union" ->
         IF child_id < self.subtype_count
         THEN IF child_id < Len(t.subtypes) THEN Ok(t.subtypes[child_id + 1])
              ELSE Panic
         ELSE DataTypeError("Index out of bound.")
    [] OTHER -> DataTypeError("Primitive types do not have subtypes.")

get_subtype(self, child_id) ==
  LET t == self.thin_type IN
  CASE t.tag = "List" ->
         IF child_id = 0 THEN Ok(t.elem)
         ELSE DataTypeError("Lists have only one subtype.")
    [] t.tag = "Map" ->
         IF child_id = 0 THEN Ok(t.key)
         ELSE IF child_id = 1 THEN Ok(t.value)
         ELSE DataTypeError("Maps have only two subtypes.")
    [] t.tag = "Struct" ->
         IF child_id < self.subtype_count
         THEN IF child_id < Len(t.fields) THEN Ok(t.fields[child_id + 1].datatype)
              ELSE Panic
         ELSE DataTypeError("Index out of bound.")
    [] t.tag = "Union" ->
         IF child_id < self.subtype_count
         THEN IF child_id < Len(t.subtypes) THEN Ok(t.subtypes[child_id + 1])
              ELSE Panic
         ELSE DataTypeError("Index out of bound.")
    [] OTHER -> DataTypeError("Primitive types do not have subtypes.")

\* A variant of get_field_name: the bound check is off by one (<=).
get_field_name_OffByOne(self, child_id) ==
  LET t == self.thin_type IN
  IF t.tag = "Struct"
  THEN IF child_id <= self.subtype_count
       THEN IF child_id < Len(t.fields) THEN Ok(t.fields[child_id + 1].name)
            ELSE Panic
       ELSE DataTypeError("Index out of bound.")
  ELSE DataTypeError("Non-structs do not have fieldnames.")

get_field_name(self, child_id) ==
  LET t == self.thin_type IN
  IF t.tag = "Struct"
  THEN IF child_id < self.subtype_count
       THEN IF child_id < Len(t.fields) THEN Ok(t.fields[child_id + 1].name)
            ELSE Panic
       ELSE DataTypeError("Index out of bound.")
  ELSE DataTypeError("Non-structs do not have fieldnames.")

get_maximum_length(self) ==
  LET t == self.thin_type IN
  IF t.tag \in {"Char", "Varchar"}
  THEN Ok(t.max_length)
  ELSE DataTypeError("DataTypes other than Char or Varchar do not have maximum length.")

\* A variant of get_precision: it reads the second payload of Decimal.
get_precision_ReadsScale(self) ==
  LET t == self.thin_type IN
  IF t.tag = "Decimal"
  THEN Ok(t.scale)
  ELSE DataTypeError("DataTypes other than Decimal do not have precision.")

get_precision(self) ==
  LET t == self.thin_type IN
  IF t.tag = "Decimal"
  THEN Ok(t.precision)
  ELSE DataTypeError("DataTypes other than Decimal do not have precision.")

get_scale(self) ==
  LET t == self.thin_type IN
  IF t.tag = "Decimal"
  THEN Ok(t.scale)
  ELSE DataTypeError("DataTypes other than Decimal do not have scale.")

(* ------------------------------ builders ------------------------------ *)

create_primitive_type(kind) ==
  IF is_primitive(kind)
  THEN LET r == ThinType_try_from(kind) IN
       IF IsOk(r) THEN Ok(DataType_new(r.val)) ELSE r
  ELSE DataTypeError("The TypeKind is not primitive")

\* A variant of create_char_type: both arms build a Char.
create_char_type_AlwaysChar(kind, max_length) ==
  LET thin_type_result ==
        CASE kind = TypeKind_Char -> Ok(ThinType_Char(max_length))
          [] kind = TypeKind_Varchar -> Ok(ThinType_Char(max_length))
          [] OTHER -> DataTypeError("The TypeKind is not Char or Varchar")
  IN IF IsOk(thin_type_result)
     THEN Ok(DataType_new(thin_type_result.val))
     ELSE thin_type_result

create_char_type(kind, max_length) ==
  LET thin_type_result ==
        CASE kind = TypeKind_Char -> Ok(ThinType_Char(max_length))
          [] kind = TypeKind_Varchar -> Ok(ThinType_Varchar(max_length))
          [] OTHER -> DataTypeError("The TypeKind is not Char or Varchar")
  IN IF IsOk(thin_type_result)
     THEN Ok(DataType_new(thin_type_result.val))
     ELSE thin_type_result

create_decimal_type(kind, precision, scale) ==
  IF kind = TypeKind_Decimal
  THEN Ok(DataType_new(ThinType_Decimal(precision, scale)))
  ELSE DataTypeError("The TypeKind is not decimal")

create_struct_type == Ok(DataType_new(ThinType_Struct(<< >>)))

create_list_type(element_type) == Ok(DataType_new(ThinType_List(element_type)))

create_map_type(key_type, value_type) ==
  Ok(DataType_new(ThinType_Map(key_type, value_type)))

create_union_type == Ok(DataType_new(ThinType_Union(<< >>)))

(* ----------------------------- tree shape ----------------------------- *)

\* The direct children a ThinType variant stores, left to right.
Children(dt) ==
  LET t == dt.thin_type IN
  CASE t.tag = "List" -> << t.elem >>
    [] t.tag = "Map" -> << t.key, t.value >>
    [] t.tag = "Struct" -> [i \in 1..Len(t.fields) |-> t.fields[i].datatype]
    [] t.tag = "Union" -> t.subtypes
    [] OTHER -> << >>

\* The same variant holding other children (field names kept).
WithChildren(t, kids) ==
  CASE t.tag = "List" -> ThinType_List(kids[1])
    [] t.tag = "Map" -> ThinType_Map(kids[1], kids[2])
    [] t.tag = "Struct" ->
         ThinType_Struct([i \in 1..Len(t.fields) |-> Field(t.fields[i].name, kids[i])])
    [] t.tag = "Union" -> ThinType_Union(kids)
    [] OTHER -> t

RECURSIVE Nodes(_)
\* Every node of the tree rooted at dt, dt included.
Nodes(dt) ==
  {dt} \cup UNION { Nodes(Children(dt)[i]) : i \in 1..Len(Children(dt)) }

RECURSIVE NodeCount(_)
NodeCount(dt) ==
  LET kids == Children(dt)
      sum[i \in 0..Len(kids)] == IF i = 0 THEN 0 ELSE sum[i - 1] + NodeCount(kids[i])
  IN 1 + sum[Len(kids)]

HeldNodes ==
  LET sum[i \in 0..Len(held)] == IF i = 0 THEN 0 ELSE sum[i - 1] + NodeCount(held[i])
  IN sum[Len(held)]

(* -------------------------- ColumnIdAssigner -------------------------- *)

RECURSIVE assign_column_ids(_, _)
RECURSIVE assign_children(_, _)

\* Numbers the subtrees of kids one after the other, starting at next.
assign_children(kids, next) ==
  IF kids = << >>
  THEN [nodes |-> << >>, next |-> next]
  ELSE LET h == assign_column_ids(Head(kids), next)
           t == assign_children(Tail(kids), h.next)
       IN [nodes |-> << h.node >> \o t.nodes, next |-> t.next]

\* A variant of assign_column_ids: the maximum is taken before the children.
assign_column_ids_MaxBeforeChildren(dt, next) ==
  LET kids == assign_children(Children(dt), next + 1) IN
  [ node |-> [dt EXCEPT !.column_id = Some(next),
                        !.maximum_column_id = Some(next),
                        !.thin_type = WithChildren(dt.thin_type, kids.nodes)],
    next |-> kids.next ]

\* Preorder: the node takes the counter, then its children left to right,
\* then its maximum is the counter minus one.
assign_column_ids(dt, next) ==
  LET kids == assign_children(Children(dt), next + 1) IN
  [ node |-> [dt EXCEPT !.column_id = Some(next),
                        !.maximum_column_id = Some(kids.next - 1),
                        !.thin_type = WithChildren(dt.thin_type, kids.nodes)],
    next |-> kids.next ]

(* ---------------------------- FlatTypeCodec --------------------------- *)

\* The flat entry of one numbered node: children are named by column id.
FlatEntry(n) ==
  LET t == n.thin_type
      kids == Children(n)
  IN [ kind |-> TypeKind_from(t),
       subtypes |-> [i \in 1..Len(kids) |-> kids[i].column_id[1]],
       fieldNames |-> IF t.tag = "Struct"
                      THEN [i \in 1..Len(t.fields) |-> t.fields[i].name]
                      ELSE << >>,
       precision |-> IF t.tag = "Decimal" THEN Some(t.precision) ELSE None,
       scale |-> IF t.tag = "Decimal" THEN Some(t.scale) ELSE None,
       maximumLength |-> IF t.tag \in {"Char", "Varchar"}
                         THEN Some(t.max_length) ELSE None ]

\* One entry per node, the entry of column id c at array position c.
encode(tree) ==
  [ c \in 1..NodeCount(tree) |->
      FlatEntry(CHOOSE n \in Nodes(tree) : n.column_id = Some(c - 1)) ]

\* A variant of thin_type_of_entry: precision and scale change places.
thin_type_of_entry_SwappedDecimal(e, kids) ==
  LET k == e.kind
      n == Len(e.subtypes)
  IN CASE k = TypeKind_List ->
            IF n = 1 THEN Ok(ThinType_List(kids[1]))
            ELSE ParseError("A List entry has one subtype.")
       [] k = TypeKind_Map ->
            IF n = 2 THEN Ok(ThinType_Map(kids[1], kids[2]))
            ELSE ParseError("A Map entry has two subtypes.")
       [] k = TypeKind_Struct ->
            IF Len(e.fieldNames) = n
            THEN Ok(ThinType_Struct([i \in 1..n |-> Field(e.fieldNames[i], kids[i])]))
            ELSE ParseError("Field names do not match the subtypes.")
       [] k = TypeKind_Union -> Ok(ThinType_Union(kids))
       [] k = TypeKind_Decimal ->
            IF n = 0 /\ e.precision # None /\ e.scale # None
            THEN Ok(ThinType_Decimal(e.scale[1], e.precision[1]))
            ELSE ParseError("Malformed Decimal entry.")
       [] k = TypeKind_Char ->
            IF n = 0 /\ e.maximumLength # None
            THEN Ok(ThinType_Char(e.maximumLength[1]))
            ELSE ParseError("Malformed Char entry.")
       [] k = TypeKind_Varchar ->
            IF n = 0 /\ e.maximumLength # None
            THEN Ok(ThinType_Varchar(e.maximumLength[1]))
            ELSE ParseError("Malformed Varchar entry.")
       [] OTHER ->
            IF n = 0 /\ IsOk(ThinType_try_from(k)) THEN ThinType_try_from(k)
            ELSE ParseError("A scalar entry has no subtypes.")

\* The ThinType an entry describes, given its materialized children.
thin_type_of_entry(e, kids) ==
  LET k == e.kind
      n == Len(e.subtypes)
  IN CASE k = TypeKind_List ->
            IF n = 1 THEN Ok(ThinType_List(kids[1]))
            ELSE ParseError("A List entry has one subtype.")
       [] k = TypeKind_Map ->
            IF n = 2 THEN Ok(ThinType_Map(kids[1], kids[2]))
            ELSE ParseError("A Map entry has two subtypes.")
       [] k = TypeKind_Struct ->
            IF Len(e.fieldNames) = n
            THEN Ok(ThinType_Struct([i \in 1..n |-> Field(e.fieldNames[i], kids[i])]))
            ELSE ParseError("Field names do not match the subtypes.")
       [] k = TypeKind_Union -> Ok(ThinType_Union(kids))
       [] k = TypeKind_Decimal ->
            IF n = 0 /\ e.precision # None /\ e.scale # None
            THEN Ok(ThinType_Decimal(e.precision[1], e.scale[1]))
            ELSE ParseError("Malformed Decimal entry.")
       [] k = TypeKind_Char ->
            IF n = 0 /\ e.maximumLength # None
            THEN Ok(ThinType_Char(e.maximumLength[1]))
            ELSE ParseError("Malformed Char entry.")
       [] k = TypeKind_Varchar ->
            IF n = 0 /\ e.maximumLength # None
            THEN Ok(ThinType_Varchar(e.maximumLength[1]))
            ELSE ParseError("Malformed Varchar entry.")
       [] OTHER ->
            IF n = 0 /\ IsOk(ThinType_try_from(k)) THEN ThinType_try_from(k)
            ELSE ParseError("A scalar entry has no subtypes.")

RECURSIVE materialize(_, _, _)
RECURSIVE materialize_children(_, _, _)

\* Materializes the entries idxs names, in order; next is the decode position.
materialize_children(entries, idxs, next) ==
  IF idxs = << >>
  THEN [status |-> "Ok", nodes |-> << >>, next |-> next]
  ELSE LET h == materialize(entries, Head(idxs), next) IN
       IF ~IsOk(h) THEN h
       ELSE LET t == materialize_children(entries, Tail(idxs), h.next) IN
            IF ~IsOk(t) THEN t
            ELSE [status |-> "Ok", nodes |-> << h.val >> \o t.nodes, next |-> t.next]

\* Materializes entry idx. An index outside the array, or one that is not the
\* decode position (a reference back into the tree, a cycle), is a ParseError.
materialize(entries, idx, next) ==
  IF idx >= Len(entries) THEN ParseError("Subtype index out of range.")
  ELSE IF idx # next THEN ParseError("Subtype index is not in preorder.")
  ELSE LET e == entries[idx + 1]
           kids == materialize_children(entries, e.subtypes, next + 1)
       IN IF ~IsOk(kids) THEN kids
          ELSE LET t == thin_type_of_entry(e, kids.nodes) IN
               IF ~IsOk(t) THEN t
               ELSE [ status |-> "Ok",
                      val |-> [DataType_new(t.val) EXCEPT
                                 !.column_id = Some(idx),
                                 !.maximum_column_id = Some(kids.next - 1),
                                 !.subtype_count = Len(e.subtypes)],
                      next |-> kids.next ]

decode(entries) ==
  IF entries = << >> THEN ParseError("Empty type array.")
  ELSE LET r == materialize(entries, 0, 0) IN
       IF ~IsOk(r) THEN r
       ELSE IF r.next # Len(entries) THEN ParseError("Unreferenced entries.")
       ELSE Ok(r.val)

(* ------------------------------ the caller ---------------------------- *)

\* The kinds and parameters a schema-building caller asks for.
SchemaKinds == { TypeKind_Long }

SchemaCharKinds == { TypeKind_Varchar }

SchemaLengths == { 3 }

SchemaDecimals == { << 10, 2 >> }

\* The caller names the fields of a Struct in this order.
FieldNames == << "a", "b", "c", "d", "e", "f" >>

Params == 0..MaxParam

\* The indices the caller asks self for: every valid one and two beyond.
ChildIds(self) ==
  LET n == Len(Children(self)) IN
  0..((IF n < self.subtype_count THEN self.subtype_count ELSE n) + 1)

NoCall == [op |-> "none", args |-> << >>, out |-> Ok(<< >>)]

Call(op, args, out) == [op |-> op, args |-> args, out |-> out]

\* The caller keeps the node a builder returns.
Keep(r) == IF IsOk(r) THEN Append(held, r.val) ELSE held

Top == held[Len(held)]

Below == held[Len(held) - 1]

\* The nodes the caller navigates: the one it built last, and the finished
\* schema until it is encoded.
Avail ==
  { held[i] : i \in { Len(held) } \ { 0 } }
    \cup { schema[i] : i \in { j \in 1..Len(schema) : flat = None } }

Init ==
  /\ held = << >>
  /\ schema = None
  /\ flat = None
  /\ res = NoCall

IsPrimitive(kind) ==
  /\ res' = Call("is_primitive", << kind >>, is_primitive(kind))
  /\ UNCHANGED << held, schema, flat >>

IsChar(kind) ==
  /\ res' = Call("is_char", << kind >>, is_char(kind))
  /\ UNCHANGED << held, schema, flat >>

TryFrom(kind) ==
  /\ res' = Call("try_from", << kind >>, ThinType_try_from(kind))
  /\ UNCHANGED << held, schema, flat >>

\* The caller maps the ThinType it was just given back to its TypeKind.
KindFrom ==
  /\ res.op = "try_from"
  /\ IsOk(res.out)
  /\ res' = Call("from", << res.args[1], res.out.val >>, TypeKind_from(res.out.val))
  /\ UNCHANGED << held, schema, flat >>

CreatePrimitive(kind) ==
  LET r == create_primitive_type(kind) IN
  /\ schema = None
  /\ HeldNodes < MaxNodes
  /\ res' = Call("create_primitive_type", << kind >>, r)
  /\ held' = Keep(r)
  /\ UNCHANGED << schema, flat >>

CreateChar(kind, max_length) ==
  LET r == create_char_type(kind, max_length) IN
  /\ schema = None
  /\ HeldNodes < MaxNodes
  /\ res' = Call("create_char_type", << kind, max_length >>, r)
  /\ held' = Keep(r)
  /\ UNCHANGED << schema, flat >>

CreateDecimal(kind, precision, scale) ==
  LET r == create_decimal_type(kind, precision, scale) IN
  /\ schema = None
  /\ HeldNodes < MaxNodes
  /\ res' = Call("create_decimal_type", << kind, precision, scale >>, r)
  /\ held' = Keep(r)
  /\ UNCHANGED << schema, flat >>

CreateStruct ==
  LET r == create_struct_type IN
  /\ schema = None
  /\ HeldNodes < MaxNodes
  /\ res' = Call("create_struct_type", << >>, r)
  /\ held' = Keep(r)
  /\ UNCHANGED << schema, flat >>

CreateUnion ==
  LET r == create_union_type IN
  /\ schema = None
  /\ HeldNodes < MaxNodes
  /\ res' = Call("create_union_type", << >>, r)
  /\ held' = Keep(r)
  /\ UNCHANGED << schema, flat >>

\* The caller wraps the node it built last and lets go of the original.
CreateList ==
  /\ schema = None
  /\ Len(held) >= 1
  /\ HeldNodes < MaxNodes
  /\ LET r == create_list_type(Top) IN
     /\ res' = Call("create_list_type", << Top >>, r)
     /\ held' = Append(SubSeq(held, 1, Len(held) - 1), r.val)
  /\ UNCHANGED << schema, flat >>

\* Key: the node built before the last; value: the node built last.
CreateMap ==
  /\ schema = None
  /\ Len(held) >= 2
  /\ HeldNodes < MaxNodes
  /\ LET r == create_map_type(Below, Top) IN
     /\ res' = Call("create_map_type", << Below, Top >>, r)
     /\ held' = Append(SubSeq(held, 1, Len(held) - 2), r.val)
  /\ UNCHANGED << schema, flat >>

\* The caller pushes a field onto a Struct's Vec and counts it.
AppendField ==
  /\ schema = None
  /\ Len(held) >= 2
  /\ Below.thin_type.tag = "Struct"
  /\ Len(Below.thin_type.fields) < Len(FieldNames)
  /\ held' = Append(SubSeq(held, 1, Len(held) - 2),
                    [Below EXCEPT
                       !.thin_type.fields = Append(@, Field(FieldNames[Len(@) + 1], Top)),
                       !.subtype_count = @ + 1])
  /\ res' = Call("push_field", << >>, Ok(<< >>))
  /\ UNCHANGED << schema, flat >>

\* The caller pushes an alternative onto a Union's Vec and counts it.
AppendAlternative ==
  /\ schema = None
  /\ Len(held) >= 2
  /\ Below.thin_type.tag = "Union"
  /\ held' = Append(SubSeq(held, 1, Len(held) - 2),
                    [Below EXCEPT
                       !.thin_type.subtypes = Append(@, Top),
                       !.subtype_count = @ + 1])
  /\ res' = Call("push_alternative", << >>, Ok(<< >>))
  /\ UNCHANGED << schema, flat >>

\* The caller lets go of the node it built last.
Drop ==
  /\ schema = None
  /\ Len(held) >= 1
  /\ held' = SubSeq(held, 1, Len(held) - 1)
  /\ res' = NoCall
  /\ UNCHANGED << schema, flat >>

GetSubtype(self, child_id) ==
  /\ res' = Call("get_subtype", << self, child_id >>, get_subtype(self, child_id))
  /\ UNCHANGED << held, schema, flat >>

GetFieldName(self, child_id) ==
  /\ res' = Call("get_field_name", << self, child_id >>, get_field_name(self, child_id))
  /\ UNCHANGED << held, schema, flat >>

GetMaximumLength(self) ==
  /\ res' = Call("get_maximum_length", << self >>, get_maximum_length(self))
  /\ UNCHANGED << held, schema, flat >>

GetPrecision(self) ==
  /\ res' = Call("get_precision", << self >>, get_precision(self))
  /\ UNCHANGED << held, schema, flat >>

GetScale(self) ==
  /\ res' = Call("get_scale", << self >>, get_scale(self))
  /\ UNCHANGED << held, schema, flat >>

\* The finished tree, the only node left, is numbered from 0.
AssignColumnIds ==
  /\ schema = None
  /\ Len(held) = 1
  /\ schema' = Some(assign_column_ids(held[1], 0).node)
  /\ held' = << >>
  /\ res' = Call("assign_column_ids", << held[1], 0 >>, Ok(<< >>))
  /\ UNCHANGED flat

Encode ==
  /\ schema # None
  /\ flat = None
  /\ flat' = Some(encode(schema[1]))
  /\ res' = Call("encode", << schema[1] >>, Ok(<< >>))
  /\ UNCHANGED << held, schema >>

Decode ==
  /\ flat # None
  /\ res' = Call("decode", << flat[1] >>, decode(flat[1]))
  /\ UNCHANGED << held, schema, flat >>

\* The caller starts a new schema.
Reset ==
  /\ schema # None
  /\ held' = << >>
  /\ schema' = None
  /\ flat' = None
  /\ res' = NoCall

Next ==
  \/ \E kind \in SchemaKinds : CreatePrimitive(kind)
  \/ \E kind \in SchemaCharKinds, n \in SchemaLengths : CreateChar(kind, n)
  \/ \E d \in SchemaDecimals : CreateDecimal(TypeKind_Decimal, d[1], d[2])
  \/ CreateStruct
  \/ CreateUnion
  \/ CreateList
  \/ CreateMap
  \/ AppendField
  \/ AppendAlternative
  \/ Drop
  \/ \E self \in Avail : \E child_id \in ChildIds(self) : GetSubtype(self, child_id)
  \/ \E self \in Avail : \E child_id \in ChildIds(self) : GetFieldName(self, child_id)
  \/ AssignColumnIds
  \/ Encode
  \/ Decode
  \/ Reset

Spec == Init /\ [][Next]_vars

\* A caller that applies the TypeKind functions, the kind-taking builders
\* and the parameter getters to every kind, holding one node at a time.
NextKind ==
  \/ \E kind \in TypeKind : IsPrimitive(kind)
  \/ \E kind \in TypeKind : IsChar(kind)
  \/ \E kind \in TypeKind : TryFrom(kind)
  \/ KindFrom
  \/ \E kind \in TypeKind : held = << >> /\ CreatePrimitive(kind)
  \/ \E kind \in TypeKind, n \in Params : held = << >> /\ CreateChar(kind, n)
  \/ \E kind \in TypeKind, p \in Params, s \in Params :
       held = << >> /\ CreateDecimal(kind, p, s)
  \/ held = << >> /\ CreateStruct
  \/ held = << >> /\ CreateUnion
  \/ CreateList
  \/ Drop
  \/ \E self \in Avail : GetMaximumLength(self)
  \/ \E self \in Avail : GetPrecision(self)
  \/ \E self \in Avail : GetScale(self)

SpecKind == Init /\ [][NextKind]_vars

\* The caller writes the public subtype_count field of the node it built last.
WriteSubtypeCount(n) ==
  /\ schema = None
  /\ Len(held) >= 1
  /\ Top.thin_type.tag \in {"Struct", "Union"}
  /\ held' = [held EXCEPT ![Len(held)].subtype_count = n]
  /\ res' = Call("write_subtype_count", << n >>, Ok(<< >>))
  /\ UNCHANGED << schema, flat >>

\* A caller that uses everything the public API leaves open on a Struct or
\* Union: the builders, appends to the children, writes to subtype_count.
NextRaw ==
  \/ \E kind \in SchemaKinds : CreatePrimitive(kind)
  \/ CreateStruct
  \/ CreateUnion
  \/ AppendField
  \/ AppendAlternative
  \/ Len(held) >= 1 /\ \E n \in 0..(Len(Children(Top)) + 1) : WriteSubtypeCount(n)
  \/ Drop
  \/ \E self \in Avail : \E child_id \in ChildIds(self) : GetSubtype(self, child_id)
  \/ \E self \in Avail : \E child_id \in ChildIds(self) : GetFieldName(self, child_id)

SpecRaw == Init /\ [][NextRaw]_vars

(* ------------------------------- claims ------------------------------- *)

\* The 12 kinds that carry no payload.
PayloadFreeKinds ==
  { TypeKind_Boolean, TypeKind_Byte, TypeKind_Short, TypeKind_Int,
    TypeKind_Long, TypeKind_Float, TypeKind_Double, TypeKind_String,
    TypeKind_Binary, TypeKind_Timestamp, TypeKind_Date,
    TypeKind_TimestampInstant }

\* The 7 kinds that need payload.
PayloadKinds ==
  { TypeKind_List, TypeKind_Map, TypeKind_Struct, TypeKind_Union,
    TypeKind_Decimal, TypeKind_Char, TypeKind_Varchar }

\* The number of children the shape of a node has.
Arity(n) ==
  LET t == n.thin_type IN
  CASE t.tag = "List" -> 1
    [] t.tag = "Map" -> 2
    [] t.tag = "Struct" -> Len(t.fields)
    [] t.tag = "Union" -> Len(t.subtypes)
    [] OTHER -> 0

HeldTrees == { held[i] : i \in 1..Len(held) }

Builders ==
  { "create_primitive_type", "create_char_type", "create_decimal_type",
    "create_struct_type", "create_union_type", "create_list_type",
    "create_map_type" }

Unassigned(n) == n.column_id = None /\ n.maximum_column_id = None

ColumnIds(tree) == { n.column_id[1] : n \in Nodes(tree) }

(* C1: every node a builder returns, and every node the caller holds after
   any sequence of builder calls, has subtype_count equal to the arity of
   its shape: 0 for leaves, 1 for List, 2 for Map, the number of stored
   fields or alternatives for Struct and Union. *)
C1_SubtypeCountIsArity ==
  /\ \A tree \in HeldTrees : \A n \in Nodes(tree) : n.subtype_count = Arity(n)
  /\ (res.op \in Builders /\ IsOk(res.out)) =>
       res.out.val.subtype_count = Arity(res.out.val)

(* C2: after the assignment pass from counter 0 the column ids of the N
   nodes are exactly 0..N-1, every node is numbered before its descendants,
   the subtrees of a node's children are numbered left to right, and every
   node's maximum_column_id is the largest column id in its subtree. *)
C2_PreorderDenseIds ==
  schema # None =>
    LET T == schema[1] IN
    /\ T.column_id = Some(0)
    /\ ColumnIds(T) = 0..(NodeCount(T) - 1)
    /\ Cardinality(Nodes(T)) = NodeCount(T)
    /\ \A n \in Nodes(T) :
         /\ \A m \in Nodes(n) \ {n} : n.column_id[1] < m.column_id[1]
         /\ \A i, j \in 1..Len(Children(n)) :
              i < j => \A a \in ColumnIds(Children(n)[i]) :
                         \A b \in ColumnIds(Children(n)[j]) : a < b
         /\ n.maximum_column_id # None
         /\ n.maximum_column_id[1] \in ColumnIds(n)
         /\ \A c \in ColumnIds(n) : c <= n.maximum_column_id[1]

\* Struct{a: leaf, b: List(leaf)} is numbered 0, 1, 2, 3 with maxima 3, 1, 3, 3.
C2_Witness ==
  /\ schema # None
  /\ schema[1].thin_type.tag = "Struct"
  /\ Len(schema[1].thin_type.fields) = 2
  /\ LET a == schema[1].thin_type.fields[1].datatype
         b == schema[1].thin_type.fields[2].datatype
     IN /\ schema[1].column_id = Some(0)
        /\ schema[1].maximum_column_id = Some(3)
        /\ a.column_id = Some(1)
        /\ a.maximum_column_id = Some(1)
        /\ b.thin_type.tag = "List"
        /\ b.column_id = Some(2)
        /\ b.maximum_column_id = Some(3)
        /\ b.thin_type.elem.column_id = Some(3)
        /\ b.thin_type.elem.maximum_column_id = Some(3)

RECURSIVE StructurallyEqual(_, _)
\* Same kinds, shapes, field names, column ids and parameters.
StructurallyEqual(x, y) ==
  LET tx == x.thin_type
      ty == y.thin_type
  IN /\ TypeKind_from(tx) = TypeKind_from(ty)
     /\ x.column_id = y.column_id
     /\ tx.tag = "Decimal" => (tx.precision = ty.precision /\ tx.scale = ty.scale)
     /\ tx.tag \in {"Char", "Varchar"} => tx.max_length = ty.max_length
     /\ tx.tag = "Struct" =>
          /\ Len(tx.fields) = Len(ty.fields)
          /\ \A i \in 1..Len(tx.fields) : tx.fields[i].name = ty.fields[i].name
     /\ Len(Children(x)) = Len(Children(y))
     /\ \A i \in 1..Len(Children(x)) :
          StructurallyEqual(Children(x)[i], Children(y)[i])

(* C3: decoding the encoding of the numbered schema succeeds and gives a
   tree structurally equal to it. *)
C3_RoundTrip ==
  res.op = "decode" =>
    /\ schema # None
    /\ res.args[1] = encode(schema[1])
    /\ IsOk(res.out)
    /\ StructurallyEqual(res.out.val, schema[1])

\* A Struct with a Decimal and a Varchar field went through encode and decode.
C3_Witness ==
  /\ res.op = "decode"
  /\ IsOk(res.out)
  /\ schema[1].thin_type.tag = "Struct"
  /\ \E n \in Nodes(schema[1]) : n.thin_type.tag = "Decimal"
  /\ \E n \in Nodes(schema[1]) : n.thin_type.tag = "Varchar"

(* C4: get_subtype returns the element of a List for index 0 only, the key
   and the value of a Map for 0 and 1, the child at the index of a Struct or
   Union for every index below subtype_count, and is a DataTypeError for
   every other index and on every other node. *)
C4_GetSubtype ==
  res.op = "get_subtype" =>
    LET self == res.args[1]
        child_id == res.args[2]
        t == self.thin_type
    IN CASE t.tag = "List" ->
              IF child_id = 0 THEN res.out = Ok(t.elem)
              ELSE IsDataTypeError(res.out)
         [] t.tag = "Map" ->
              IF child_id = 0 THEN res.out = Ok(t.key)
              ELSE IF child_id = 1 THEN res.out = Ok(t.value)
              ELSE IsDataTypeError(res.out)
         [] t.tag = "Struct" ->
              IF child_id < self.subtype_count
              THEN child_id < Len(t.fields)
                   /\ res.out = Ok(t.fields[child_id + 1].datatype)
              ELSE IsDataTypeError(res.out)
         [] t.tag = "Union" ->
              IF child_id < self.subtype_count
              THEN child_id < Len(t.subtypes)
                   /\ res.out = Ok(t.subtypes[child_id + 1])
              ELSE IsDataTypeError(res.out)
         [] OTHER -> IsDataTypeError(res.out)

\* get_subtype(1) on a Map whose key and value differ returned the value.
C4_Witness ==
  /\ res.op = "get_subtype"
  /\ res.args[1].thin_type.tag = "Map"
  /\ res.args[1].thin_type.key # res.args[1].thin_type.value
  /\ res.args[2] = 1
  /\ res.out = Ok(res.args[1].thin_type.value)

(* C5: get_field_name returns the name of the field at the index on a Struct
   for every index below subtype_count, and is a DataTypeError for every
   other index and on every node that is not a Struct. *)
C5_GetFieldName ==
  res.op = "get_field_name" =>
    LET self == res.args[1]
        child_id == res.args[2]
        t == self.thin_type
    IN IF t.tag = "Struct" /\ child_id < self.subtype_count
       THEN child_id < Len(t.fields) /\ res.out = Ok(t.fields[child_id + 1].name)
       ELSE IsDataTypeError(res.out)

\* get_field_name(1) on a Struct with fields a and b returned "b".
C5_Witness ==
  /\ res.op = "get_field_name"
  /\ res.args[1].thin_type.tag = "Struct"
  /\ res.args[1].subtype_count = 2
  /\ res.args[2] = 1
  /\ res.out = Ok("b")

(* C6: while a tree is being built, every node the caller holds, every node
   inside it, and every node a builder or get_subtype returns has column_id
   and maximum_column_id absent. *)
C6_BuildersLeaveUnassigned ==
  schema = None =>
    /\ \A tree \in HeldTrees : \A n \in Nodes(tree) : Unassigned(n)
    /\ (res.op \in Builders \cup {"get_subtype"} /\ IsOk(res.out)) =>
         \A n \in Nodes(res.out.val) : Unassigned(n)

\* get_subtype(1) returned the unassigned value of a Map the caller built.
C6_Witness ==
  /\ schema = None
  /\ res.op = "get_subtype"
  /\ res.args[1].thin_type.tag = "Map"
  /\ res.args[1] \in HeldTrees
  /\ res.args[2] = 1
  /\ IsOk(res.out)
  /\ Unassigned(res.out.val)

(* C7: ThinType::try_from succeeds exactly on the 12 payload-free kinds,
   TypeKind::from of its result is the kind it was given, and on the other
   7 kinds it is a DataTypeError. *)
C7_TryFromRoundTrip ==
  /\ res.op = "try_from" =>
       /\ res.args[1] \in PayloadFreeKinds => IsOk(res.out)
       /\ res.args[1] \in PayloadKinds => IsDataTypeError(res.out)
       /\ res.args[1] \in PayloadFreeKinds \cup PayloadKinds
  /\ res.op = "from" => res.out = res.args[1]

\* Date went through try_from and back through from.
C7_Witness ==
  /\ res.op = "from"
  /\ res.args[1] = TypeKind_Date
  /\ res.out = TypeKind_Date

(* C8: is_primitive is true on the 12 payload-free kinds and false on List,
   Map, Struct, Union, Decimal, Char and Varchar; is_char is true on Char
   and Varchar only. *)
C8_IsPrimitiveIsChar ==
  /\ res.op = "is_primitive" =>
       /\ res.args[1] \in PayloadFreeKinds => res.out = TRUE
       /\ res.args[1] \in PayloadKinds => res.out = FALSE
       /\ res.args[1] \in PayloadFreeKinds \cup PayloadKinds
  /\ res.op = "is_char" =>
       (res.out = TRUE <=> res.args[1] \in {TypeKind_Char, TypeKind_Varchar})

\* is_primitive(Decimal) returned false.
C8_Witness ==
  /\ res.op = "is_primitive"
  /\ res.args[1] = TypeKind_Decimal
  /\ res.out = FALSE

(* C9: create_primitive_type succeeds exactly on the 12 payload-free kinds,
   create_char_type exactly on Char and Varchar, create_decimal_type exactly
   on Decimal; a success returns a node of the requested kind, a failure is
   a DataTypeError that carries no node. *)
C9_BuildersCheckKind ==
  LET kind == res.args[1]
      wanted ==
        CASE res.op = "create_primitive_type" -> PayloadFreeKinds
          [] res.op = "create_char_type" -> {TypeKind_Char, TypeKind_Varchar}
          [] res.op = "create_decimal_type" -> {TypeKind_Decimal}
  IN res.op \in {"create_primitive_type", "create_char_type", "create_decimal_type"} =>
       IF kind \in wanted
       THEN IsOk(res.out) /\ TypeKind_from(res.out.val.thin_type) = kind
       ELSE IsDataTypeError(res.out) /\ ~("val" \in DOMAIN res.out)

\* create_char_type(Varchar, n) returned a Varchar node.
C9_Witness ==
  /\ res.op = "create_char_type"
  /\ res.args[1] = TypeKind_Varchar
  /\ IsOk(res.out)
  /\ res.out.val.thin_type.tag = "Varchar"

(* C10: the getters read back the parameters the builders were given:
   precision and scale of a node from create_decimal_type, maximum length of
   a node from create_char_type; get_precision and get_scale are a
   DataTypeError on every node that is not a Decimal, get_maximum_length on
   every node that is neither Char nor Varchar. *)
C10_ParametersReadBack ==
  /\ (res.op = "create_decimal_type" /\ IsOk(res.out)) =>
       /\ get_precision(res.out.val) = Ok(res.args[2])
       /\ get_scale(res.out.val) = Ok(res.args[3])
  /\ (res.op = "create_char_type" /\ IsOk(res.out)) =>
       get_maximum_length(res.out.val) = Ok(res.args[2])
  /\ res.op = "get_precision" =>
       IF TypeKind_from(res.args[1].thin_type) = TypeKind_Decimal
       THEN res.out = Ok(res.args[1].thin_type.precision)
       ELSE IsDataTypeError(res.out)
  /\ res.op = "get_scale" =>
       IF TypeKind_from(res.args[1].thin_type) = TypeKind_Decimal
       THEN res.out = Ok(res.args[1].thin_type.scale)
       ELSE IsDataTypeError(res.out)
  /\ res.op = "get_maximum_length" =>
       IF TypeKind_from(res.args[1].thin_type) \in {TypeKind_Char, TypeKind_Varchar}
       THEN res.out = Ok(res.args[1].thin_type.max_length)
       ELSE IsDataTypeError(res.out)

\* get_precision read 1 back from a node built as Decimal(1, 0).
C10_Witness ==
  /\ res.op = "get_precision"
  /\ res.args[1].thin_type.tag = "Decimal"
  /\ res.args[1].thin_type.scale = 0
  /\ res.out = Ok(1)

(* C11: get_subtype and get_field_name never panic: on every node the
   public API can produce, subtype_count above the stored children
   included, and for every child_id, the result is a value or a
   DataTypeError. *)
C11_NavigationNeverPanics ==
  res.op \in {"get_subtype", "get_field_name"} =>
    IsOk(res.out) \/ IsDataTypeError(res.out)

====
